---- MODULE Spec2Model ----
(***************************************************************************)
(* Session state synchronisation and shared cooking timer of cookcalc.     *)
(*                                                                         *)
(* Each session (one agent name) has a session actor holding the canonical *)
(* Document and the tool bridge that runs inside the actor; the browser    *)
(* clients (the Chat component of app.tsx) each have their local React     *)
(* state, their countdown effect, and the two directions of their          *)
(* WebSocket.  Durations and instants are in abstract clock units instead  *)
(* of milliseconds.                                                        *)
(***************************************************************************)
EXTENDS Integers, Sequences, FiniteSets, TLC

\* ---------------------------------------------------------------- bounds
MaxTime == 2       \* the wall clock runs from 1 to MaxTime
MaxDur == 1        \* longest duration a single command sets or adds
MaxMs == 2         \* cap on totalMs reached by repeated addTime
MaxSkew == 1       \* clock offset of the second client
MaxIds == 2        \* supply of crypto.randomUUID() values
MaxLen == 2        \* longest list kept in a Document
MaxOutbox == 1     \* commands of one client in flight to the actor
MaxCmds == 3      \* commands issued by clients and tools in one run
MaxInbox == 1      \* broadcasts in flight to one client
MaxBacklog == 2    \* the same, where the order of delivery is studied
MaxDrawn == 3      \* longest list a Document holds at the start of a deletion

Clients == {"A", "B"}
Sessions == {"X", "Y"}
Fields == {"timer", "groceryList", "shoppingList", "instructions"}
ListFields == Fields \ {"timer"}

VARIABLES
  now,        \* true time; each party reads it through its own clock
  agentId,    \* agentId[c]: the session identifier client c passes to useAgent as name
  room,       \* broadcasts one connection holds undelivered before the actor waits
  docs,       \* docs[s]: canonical Document held by the actor of session s (agent.state)
  local,      \* local[c]: timerState, groceryList, shoppingList, instructions of client c
  display,    \* display[c]: displayMs of client c, the remaining time it shows
  effect,     \* effect[c]: activeDeadline captured by the countdown effect, <<>> when no interval is installed
  outbox,     \* outbox[c]: states sent by client c with agent.setState, not yet applied,
              \* each with the field its handler targets, the kind of command, the
              \* delta of an addTime (0 otherwise), and whether the handler's
              \* updater kept the value it was given
  inbox,      \* inbox[c]: broadcasts sent to client c, not yet handled by onStateUpdate,
              \* each numbered by the actor that sent it
  nextId,     \* next value of crypto.randomUUID()
  last,       \* source, field, kind and session of the command an actor applied last
  cmds,       \* number of commands issued so far by clients and tools
  result,     \* the string the last tool call returned
  applied,    \* applied[s]: number of Documents the actor of session s has produced
  observed    \* observed[c]: number carried by the last broadcast client c handled

vars == <<now, agentId, room, docs, local, display, effect, outbox, inbox, nextId, last, cmds,
          result, applied, observed>>

\* what is fixed when the connections are made
setup == <<agentId, room>>

\* canonical Document of the session client A is in
doc == docs[agentId["A"]]

\* ------------------------------------------------------------ clocks
Skew == [c \in Clients |-> IF c = "A" THEN 0 ELSE MaxSkew]

\* Date.now() evaluated in the browser of client c
ClientNow(c) == now + Skew[c]

\* Date.now() evaluated inside the session actor (tools)
ServerNow == now

\* ------------------------------------------------------------ shared.ts
NoLabel == "undefined"
NoDeadline == <<>>

\* JavaScript truthiness of an optional number: undefined and 0 are falsy
Truthy(d) == d # <<>> /\ d[1] # 0

Max(a, b) == IF a >= b THEN a ELSE b

createDefaultTimerState(t) ==
  [status |-> "idle", totalMs |-> 0, remainingMs |-> 0,
   deadline |-> NoDeadline, label |-> NoLabel, updatedAt |-> t]

\* a default Document that comes with a sample instruction
createDefaultAgentStateSample(t) ==
  [timer |-> createDefaultTimerState(t), groceryList |-> <<>>,
   shoppingList |-> <<>>, instructions |-> <<[id |-> 0, text |-> "Boil"]>>]

createDefaultAgentState(t) ==
  [timer |-> createDefaultTimerState(t), groceryList |-> <<>>,
   shoppingList |-> <<>>, instructions |-> <<>>]

\* ------------------------------------------------------------ app.tsx: timer
\* PRESET_TIMERS, with the minutes scaled to clock units
PRESET_TIMERS == {[label |-> "Rice", minutes |-> 1], [label |-> "Pasta", minutes |-> MaxDur]}

\* the amounts of the Add Time buttons, scaled to clock units
AddTimeDeltas == {d \in (0 - MaxDur)..MaxDur : d # 0}

\* getTimerDisplayMs, with Date.now() = t
getTimerDisplayMs(timer, t) ==
  IF timer.status = "running" /\ Truthy(timer.deadline)
  THEN Max(0, timer.deadline[1] - t)
  ELSE timer.remainingMs

\* updater of handlePresetSelect
handlePresetSelect(totalMs, label, t) ==
  [createDefaultTimerState(t) EXCEPT
     !.status = "paused", !.totalMs = totalMs, !.remainingMs = totalMs, !.label = label]

\* handleStart that always runs the whole total
handleStartFromTotal(prev, t) ==
  IF prev.status = "running" THEN prev
  ELSE LET baseline == Max(prev.totalMs, 0)
       IN IF baseline <= 0
          THEN (IF prev.totalMs = 0 THEN createDefaultTimerState(t) ELSE prev)
          ELSE [prev EXCEPT !.status = "running", !.remainingMs = baseline,
                            !.deadline = <<t + baseline>>]

\* handleStart that runs only what remains and never restarts from the total
handleStartNoRestart(prev, t) ==
  IF prev.status = "running" THEN prev
  ELSE LET baseline == prev.remainingMs
       IN IF baseline <= 0
          THEN (IF prev.totalMs = 0 THEN createDefaultTimerState(t) ELSE prev)
          ELSE [prev EXCEPT !.status = "running", !.remainingMs = baseline,
                            !.deadline = <<t + baseline>>]

\* updater of handleStart
handleStart(prev, t) ==
  IF prev.status = "running" THEN prev
  ELSE LET baseline == IF prev.remainingMs > 0 THEN prev.remainingMs ELSE Max(prev.totalMs, 0)
       IN IF baseline <= 0
          THEN (IF prev.totalMs = 0 THEN createDefaultTimerState(t) ELSE prev)
          ELSE [prev EXCEPT !.status = "running", !.remainingMs = baseline,
                            !.deadline = <<t + baseline>>]

\* handlePause with the deadline left in place
handlePauseKeepsDeadline(prev, t) ==
  IF prev.status # "running" THEN prev
  ELSE [prev EXCEPT !.status = "paused",
          !.remainingMs = IF Truthy(prev.deadline) THEN Max(0, prev.deadline[1] - t)
                          ELSE prev.remainingMs]

\* handlePause without the clamp at zero
handlePauseUnclamped(prev, t) ==
  IF prev.status # "running" THEN prev
  ELSE [prev EXCEPT !.status = "paused",
          !.remainingMs = IF Truthy(prev.deadline) THEN prev.deadline[1] - t
                          ELSE prev.remainingMs,
          !.deadline = NoDeadline]

\* updater of handlePause
handlePause(prev, t) ==
  IF prev.status # "running" THEN prev
  ELSE [prev EXCEPT !.status = "paused",
          !.remainingMs = IF Truthy(prev.deadline) THEN Max(0, prev.deadline[1] - t)
                          ELSE prev.remainingMs,
          !.deadline = NoDeadline]

\* handleReset that always goes back to the default timer
handleResetToIdle(prev, t) == createDefaultTimerState(t)

\* updater of handleReset
handleReset(prev, t) ==
  IF prev.totalMs = 0 THEN createDefaultTimerState(t)
  ELSE [prev EXCEPT !.status = "paused", !.remainingMs = prev.totalMs, !.deadline = NoDeadline]

\* updater of handleClear
handleClear(t) == createDefaultTimerState(t)

\* handleAddTime that clamps the remaining time at zero instead of cancelling
handleAddTimeNoCancel(prev, msToAdd, t) ==
  IF prev.totalMs = 0
  THEN IF msToAdd <= 0 THEN prev
       ELSE [createDefaultTimerState(t) EXCEPT
               !.status = "paused", !.totalMs = msToAdd, !.remainingMs = msToAdd,
               !.label = "Custom"]
  ELSE [prev EXCEPT
          !.status = "paused",
          !.totalMs = Max(prev.totalMs + msToAdd, 0),
          !.remainingMs = Max(prev.remainingMs + msToAdd, 0),
          !.deadline = NoDeadline]

\* updater of handleAddTime
handleAddTime(prev, msToAdd, t) ==
  IF prev.totalMs = 0
  THEN IF msToAdd <= 0 THEN prev
       ELSE [createDefaultTimerState(t) EXCEPT
               !.status = "paused", !.totalMs = msToAdd, !.remainingMs = msToAdd,
               !.label = "Custom"]
  ELSE LET newRemaining == prev.remainingMs + msToAdd
           newTotal == prev.totalMs + msToAdd
       IN IF newRemaining <= 0 THEN createDefaultTimerState(t)
          ELSE IF prev.status = "running"
          THEN [prev EXCEPT
                  !.totalMs = IF newTotal > 0 THEN newTotal ELSE 0,
                  !.remainingMs = newRemaining,
                  !.deadline = <<(IF Truthy(prev.deadline) THEN prev.deadline[1] ELSE t) + msToAdd>>]
          ELSE [prev EXCEPT
                  !.status = "paused",
                  !.totalMs = IF newTotal > 0 THEN newTotal ELSE 0,
                  !.remainingMs = newRemaining,
                  !.deadline = NoDeadline]

\* the finish updater with the remaining time left as it was
tickFinishKeepsRemaining(prev) ==
  [prev EXCEPT !.status = "finished", !.deadline = NoDeadline]

\* updater passed to syncTimerState by tick when msLeft <= 0
tickFinish(prev) ==
  [prev EXCEPT !.status = "finished", !.remainingMs = 0, !.deadline = NoDeadline]

\* canStart, canPause, canReset: the buttons are disabled when these are false
canStart(timer) == timer.status # "running" /\ (timer.remainingMs > 0 \/ timer.totalMs > 0)
canPause(timer) == timer.status = "running"
canReset(timer) == timer.totalMs > 0 \/ timer.status = "finished"

\* ------------------------------------------------------------ list values
Names == {"Eggs", "eggs"}
\* the names a delete-by-name tool call can carry
AskedNames == Names \cup {"Milk"}
Quantities == {"1"}
Texts == {"Boil"}
NoExpiry == "undefined"

\* the items a form or a tool call can carry (id not yet assigned)
ItemInputs == [name : Names, quantity : Quantities, expiryDate : {NoExpiry}]

\* the arrays a tool call can carry
ItemBatches == UNION {[1..k -> ItemInputs] : k \in 1..2}
TextBatches == UNION {[1..k -> Texts] : k \in 1..2}

\* String.prototype.toLowerCase on the names of the model
toLowerCase(s) == IF s = "Eggs" THEN "eggs" ELSE IF s = "Milk" THEN "milk" ELSE s

RECURSIVE filter(_, _)
\* Array.prototype.filter((item) => item.id !== id)
filter(list, id) ==
  IF list = <<>> THEN <<>>
  ELSE IF Head(list).id # id THEN <<Head(list)>> \o filter(Tail(list), id)
       ELSE filter(Tail(list), id)

\* a map that adds the item when no item of the list has its id
mapReplaceOrAppend(list, item) ==
  IF \E k \in 1..Len(list) : list[k].id = item.id
  THEN [k \in 1..Len(list) |-> IF list[k].id = item.id THEN item ELSE list[k]]
  ELSE Append(list, item)

\* Array.prototype.map((i) => (i.id === item.id ? item : i))
mapReplace(list, item) ==
  [k \in 1..Len(list) |-> IF list[k].id = item.id THEN item ELSE list[k]]

\* the index of the last item with the name instead of the first
findLastIndex(list, name) ==
  LET hits == {k \in 1..Len(list) : toLowerCase(list[k].name) = toLowerCase(name)}
  IN IF hits = {} THEN 0 - 1
     ELSE (CHOOSE k \in hits : \A j \in hits : k >= j) - 1

\* Array.prototype.findIndex by lower-cased name; 0-based, -1 when absent
findIndex(list, name) ==
  LET hits == {k \in 1..Len(list) : toLowerCase(list[k].name) = toLowerCase(name)}
  IN IF hits = {} THEN 0 - 1
     ELSE (CHOOSE k \in hits : \A j \in hits : k <= j) - 1

\* [...list.slice(0, index), ...list.slice(index + 1)] for a 0-based index
removeAt(list, index) ==
  [k \in 1..(Len(list) - 1) |-> IF k <= index THEN list[k] ELSE list[k + 1]]

\* items.map(item => ({ id: crypto.randomUUID(), ... })) with ids first, first + 1, ...
withIds(items, first) ==
  [k \in 1..Len(items) |->
     [id |-> first + k - 1, name |-> items[k].name, quantity |-> items[k].quantity,
      expiryDate |-> items[k].expiryDate]]

\* instructions.map(text => ({ id: crypto.randomUUID(), text }))
instructionsWithIds(texts, first) ==
  [k \in 1..Len(texts) |-> [id |-> first + k - 1, text |-> texts[k]]]

Ids(list) == {list[k].id : k \in 1..Len(list)}

\* ------------------------------------------------------------ session actor
\* a Document written with the fields of a partial state laid over it
applyCommand(d, state) ==
  [f \in Fields |-> IF f \in DOMAIN state THEN state[f] ELSE d[f]]

\* every client connected under one fixed name
agentNameFixed(c) == "X"

\* the session client c is connected to: useAgent({ agent: "chat", name: agentId })
agentName(c) == agentId[c]

\* a broadcast that reaches a subscriber ahead of the broadcasts still waiting
broadcastNewestFirst(s, d) ==
  [c \in Clients |->
     IF agentName(c) = s THEN <<[seq |-> applied[s] + 1, state |-> d]>> \o inbox[c]
     ELSE inbox[c]]

\* a broadcast sent to the clients of every session
broadcastToAll(s, d) ==
  [c \in Clients |-> Append(inbox[c], [seq |-> applied[s] + 1, state |-> d])]

\* the new Document of session s sent to every subscriber of s, the originator included
broadcast(s, d) ==
  [c \in Clients |->
     IF agentName(c) = s THEN Append(inbox[c], [seq |-> applied[s] + 1, state |-> d])
     ELSE inbox[c]]

InboxRoom(s) == \A c \in Clients : agentName(c) = s => Len(inbox[c]) < room

\* the actor of client c's session takes the next state c sent and applies it
ActorReceive(c) ==
  /\ outbox[c] # <<>>
  /\ InboxRoom(agentName(c))
  /\ LET s == agentName(c)
         msg == Head(outbox[c])
         newDoc == applyCommand(docs[s], msg.state)
     IN /\ docs' = [docs EXCEPT ![s] = newDoc]
        /\ inbox' = broadcast(s, newDoc)
        /\ applied' = [applied EXCEPT ![s] = @ + 1]
        /\ last' = [src |-> c, field |-> msg.target, kind |-> msg.kind, session |-> s]
  /\ outbox' = [outbox EXCEPT ![c] = Tail(@)]
  /\ UNCHANGED <<now, local, display, effect, nextId, cmds, result, observed>>
  /\ UNCHANGED setup

\* agent.setState called by the tool `kind` inside the actor of session s,
\* and the string the tool returns after it
ToolSetState(s, newDoc, field, kind, reply) ==
  /\ InboxRoom(s)
  /\ cmds < MaxCmds
  /\ cmds' = cmds + 1
  /\ docs' = [docs EXCEPT ![s] = newDoc]
  /\ inbox' = broadcast(s, newDoc)
  /\ applied' = [applied EXCEPT ![s] = @ + 1]
  /\ last' = [src |-> "tool", field |-> field, kind |-> kind, session |-> s]
  /\ result' = reply
  /\ UNCHANGED <<now, local, display, effect, outbox, observed>>
  /\ UNCHANGED setup

\* a tool that returns without calling agent.setState
ToolReturn(reply) ==
  /\ cmds < MaxCmds
  /\ cmds' = cmds + 1
  /\ result' = reply
  /\ UNCHANGED <<now, docs, local, display, effect, outbox, inbox, nextId, last, applied, observed>>
  /\ UNCHANGED setup

\* ------------------------------------------------------------ tools.ts
\* a tool's state object built from a default Document instead of the current one
toolStateFromDefault(currentState, field, value) ==
  [createDefaultAgentState(currentState.timer.updatedAt) EXCEPT ![field] = value]

\* { ...currentState, <field>: value }
toolState(currentState, field, value) == [currentState EXCEPT ![field] = value]

\* the strings the tools return, without the values spliced into them
Added(field) == <<"Added", "items", "to", field>>
Removed(field, name) == <<"Removed", name, "from", field>>
NotFound(field, name) == <<"Item", name, "not found in", field>>
InvalidIndex == <<"Invalid index.", "Please provide a number", "between 1 and", "instructions">>
InvalidDuration == <<"Please provide", "a valid duration", "greater than 0 seconds.", "timer">>
TimerSet == <<"Timer", "set", "for", "timer">>
NoResult == <<"none", "none", "none", "none">>

\* the strings that report a call the tool did not carry out
Rejections ==
  {NotFound(field, name) : field \in ListFields, name \in AskedNames}
    \cup {InvalidIndex, InvalidDuration}

\* addGroceryItems.execute / addShoppingListItems.execute
ToolAddItems(s, field, kind, items) ==
  /\ nextId + Len(items) - 1 <= MaxIds
  /\ Len(docs[s][field]) + Len(items) <= MaxLen
  /\ LET currentState == docs[s]
         newItems == withIds(items, nextId)
         newList == currentState[field] \o newItems
     IN ToolSetState(s, toolState(currentState, field, newList), field, kind, Added(field))
  /\ nextId' = nextId + Len(items)

addGroceryItems(s, items) == ToolAddItems(s, "groceryList", "addGroceryItems", items)

addShoppingListItems(s, items) == ToolAddItems(s, "shoppingList", "addShoppingListItems", items)

\* deleteGroceryItem.execute / deleteShoppingListItem.execute
ToolDeleteItem(s, field, kind, name) ==
  LET currentState == docs[s]
      list == currentState[field]
      index == findIndex(list, name)
  IN IF index = 0 - 1
     THEN ToolReturn(NotFound(field, name))
     ELSE /\ ToolSetState(s, toolState(currentState, field, removeAt(list, index)), field,
                          kind, Removed(field, list[index + 1].name))
          /\ UNCHANGED nextId

deleteGroceryItem(s, name) == ToolDeleteItem(s, "groceryList", "deleteGroceryItem", name)

deleteShoppingListItem(s, name) ==
  ToolDeleteItem(s, "shoppingList", "deleteShoppingListItem", name)

\* addInstruction.execute
addInstruction(s, texts) ==
  /\ nextId + Len(texts) - 1 <= MaxIds
  /\ Len(docs[s].instructions) + Len(texts) <= MaxLen
  /\ LET currentState == docs[s]
         newList == currentState.instructions \o instructionsWithIds(texts, nextId)
     IN ToolSetState(s, toolState(currentState, "instructions", newList), "instructions",
                     "addInstruction", Added("instructions"))
  /\ nextId' = nextId + Len(texts)

\* a deleteInstruction that takes the index as a position counted from 0
deleteInstructionFromZero(s, index) ==
  LET currentState == docs[s]
      list == currentState.instructions
  IN IF index < 0 \/ index >= Len(list)
     THEN ToolReturn(InvalidIndex)
     ELSE /\ ToolSetState(s, toolState(currentState, "instructions", removeAt(list, index)),
                          "instructions", "deleteInstruction",
                          Removed("instructions", list[index + 1].text))
          /\ UNCHANGED nextId

\* deleteInstruction.execute with a 1-based index
deleteInstruction(s, index) ==
  LET currentState == docs[s]
      list == currentState.instructions
  IN IF index < 1 \/ index > Len(list)
     THEN ToolReturn(InvalidIndex)
     ELSE /\ ToolSetState(s, toolState(currentState, "instructions", removeAt(list, index - 1)),
                          "instructions", "deleteInstruction",
                          Removed("instructions", list[index].text))
          /\ UNCHANGED nextId

\* a setTimer that writes the timer although the duration is not positive
setTimerUnchecked(s, totalMs, label) ==
  /\ LET t == ServerNow
         newTimerState == [status |-> "running", totalMs |-> totalMs, remainingMs |-> totalMs,
                           deadline |-> <<t + totalMs>>,
                           label |-> IF label = NoLabel THEN "Timer" ELSE label,
                           updatedAt |-> t]
     IN ToolSetState(s, toolState(docs[s], "timer", newTimerState), "timer", "setTimer",
                     IF totalMs <= 0 THEN InvalidDuration ELSE TimerSet)
  /\ UNCHANGED nextId

\* setTimer.execute, minutes and seconds already combined into one duration
setTimer(s, totalMs, label) ==
  IF totalMs <= 0
  THEN ToolReturn(InvalidDuration)
  ELSE /\ LET t == ServerNow
              newTimerState == [status |-> "running", totalMs |-> totalMs,
                                remainingMs |-> totalMs,
                                deadline |-> <<t + totalMs>>,
                                label |-> IF label = NoLabel THEN "Timer" ELSE label,
                                updatedAt |-> t]
          IN ToolSetState(s, toolState(docs[s], "timer", newTimerState), "timer", "setTimer",
                          TimerSet)
       /\ UNCHANGED nextId

\* ------------------------------------------------------------ app.tsx: client
OutboxRoom(c) == Len(outbox[c]) < MaxOutbox

\* onStateUpdate that takes an empty list for a missing one
onStateUpdateSkipsEmpty(localDoc, incomingState) ==
  [f \in Fields |->
     IF f \in DOMAIN incomingState /\ incomingState[f] # <<>>
     THEN incomingState[f] ELSE localDoc[f]]

\* onStateUpdate: each of the four fields is taken when the incoming state
\* has it (objects and arrays, the empty array included, are truthy)
onStateUpdate(localDoc, incomingState) ==
  [timer |-> IF "timer" \in DOMAIN incomingState
             THEN incomingState.timer ELSE localDoc.timer,
   groceryList |-> IF "groceryList" \in DOMAIN incomingState
                   THEN incomingState.groceryList ELSE localDoc.groceryList,
   shoppingList |-> IF "shoppingList" \in DOMAIN incomingState
                    THEN incomingState.shoppingList ELSE localDoc.shoppingList,
   instructions |-> IF "instructions" \in DOMAIN incomingState
                    THEN incomingState.instructions ELSE localDoc.instructions]

\* onStateUpdate: setDisplayMs(getTimerDisplayMs(timerFromState)) when the state has a timer
shownAfterUpdate(shown, incomingState, t) ==
  IF "timer" \in DOMAIN incomingState THEN getTimerDisplayMs(incomingState.timer, t) ELSE shown

\* a client that handles the newest waiting broadcast first
ReceiveNewestFirst(c) ==
  /\ inbox[c] # <<>>
  /\ local' = [local EXCEPT ![c] = onStateUpdate(local[c], inbox[c][Len(inbox[c])].state)]
  /\ display' = [display EXCEPT ![c] =
                   shownAfterUpdate(@, inbox[c][Len(inbox[c])].state, ClientNow(c))]
  /\ observed' = [observed EXCEPT ![c] = inbox[c][Len(inbox[c])].seq]
  /\ inbox' = [inbox EXCEPT ![c] = SubSeq(@, 1, Len(@) - 1)]
  /\ UNCHANGED <<now, docs, effect, outbox, nextId, last, cmds, result, applied>>
  /\ UNCHANGED setup

\* the client handles the next broadcast; React renders, and re-runs the
\* countdown effect, in a later task (RunEffect)
Receive(c) ==
  /\ inbox[c] # <<>>
  /\ local' = [local EXCEPT ![c] = onStateUpdate(local[c], Head(inbox[c]).state)]
  /\ display' = [display EXCEPT ![c] = shownAfterUpdate(@, Head(inbox[c]).state, ClientNow(c))]
  /\ observed' = [observed EXCEPT ![c] = Head(inbox[c]).seq]
  /\ inbox' = [inbox EXCEPT ![c] = Tail(@)]
  /\ UNCHANGED <<now, docs, effect, outbox, nextId, last, cmds, result, applied>>
  /\ UNCHANGED setup

\* the state object of a list handler built from a default Document
listStateFromDefault(field, newList) ==
  [createDefaultAgentState(0) EXCEPT ![field] = newList]

\* the state object a list handler passes to agent.setState: { <field>: newList }
listState(field, newList) == [f \in {field} |-> newList]

\* setXList((prev) => { ...; agent.setState({ <field>: newList }); return newList })
SetList(c, field, newList) ==
  /\ OutboxRoom(c)
  /\ cmds < MaxCmds
  /\ cmds' = cmds + 1
  /\ local' = [local EXCEPT ![c][field] = newList]
  /\ outbox' = [outbox EXCEPT ![c] =
                  Append(@, [target |-> field, kind |-> "command", arg |-> 0,
                             kept |-> (newList = local[c][field]),
                             state |-> listState(field, newList)])]
  /\ UNCHANGED <<now, docs, display, effect, inbox, last, result, applied, observed>>
  /\ UNCHANGED setup

\* an add that puts the new item in front of the list
AddItemInFront(c, field, item) ==
  /\ nextId <= MaxIds
  /\ Len(local[c][field]) < MaxLen
  /\ SetList(c, field, withIds(<<item>>, nextId) \o local[c][field])
  /\ nextId' = nextId + 1

\* handleAddGroceryItem / handleAddShoppingItem with the input of the form
AddItem(c, field, item) ==
  /\ nextId <= MaxIds
  /\ Len(local[c][field]) < MaxLen
  /\ SetList(c, field, local[c][field] \o withIds(<<item>>, nextId))
  /\ nextId' = nextId + 1

handleAddGroceryItem(c, item) == AddItem(c, "groceryList", item)

handleAddShoppingItem(c, item) == AddItem(c, "shoppingList", item)

\* the trash button of a displayed item
RemoveItem(c, field, id) ==
  /\ id \in Ids(local[c][field])
  /\ SetList(c, field, filter(local[c][field], id))
  /\ UNCHANGED nextId

handleRemoveGroceryItem(c, id) == RemoveItem(c, "groceryList", id)

handleRemoveShoppingItem(c, id) == RemoveItem(c, "shoppingList", id)

\* onUpdateItem / onUpdateShoppingItem with an edited copy of a displayed item
UpdateItem(c, field, item) ==
  /\ item.id \in Ids(local[c][field])
  /\ SetList(c, field, mapReplace(local[c][field], item))
  /\ UNCHANGED nextId

onUpdateItem(c, item) == UpdateItem(c, "groceryList", item)

onUpdateShoppingItem(c, item) == UpdateItem(c, "shoppingList", item)

\* onMarkAsBought(item): handleAddGroceryItem(item), then
\* handleRemoveShoppingItem(item.id); both states are sent in the same task, the
\* grocery list first; kind and arg name the handler and the id of the item
onMarkAsBought(c, item) ==
  /\ OutboxRoom(c)
  /\ cmds < MaxCmds
  /\ nextId <= MaxIds
  /\ Len(local[c].groceryList) < MaxLen
  /\ cmds' = cmds + 1
  /\ nextId' = nextId + 1
  /\ LET newItem == withIds(<<item>>, nextId)
         newGroceryList == local[c].groceryList \o newItem
         newShoppingList == filter(local[c].shoppingList, item.id)
     IN /\ local' = [local EXCEPT ![c].groceryList = newGroceryList,
                                  ![c].shoppingList = newShoppingList]
        /\ outbox' = [outbox EXCEPT ![c] =
                        @ \o <<[target |-> "groceryList", kind |-> "markAsBought",
                                arg |-> item.id,
                                kept |-> FALSE,
                                state |-> listState("groceryList", newGroceryList)],
                               [target |-> "shoppingList", kind |-> "markAsBought",
                                arg |-> item.id,
                                kept |-> (newShoppingList = local[c].shoppingList),
                                state |-> listState("shoppingList", newShoppingList)]>>]
  /\ UNCHANGED <<now, docs, display, effect, inbox, last, result, applied, observed>>
  /\ UNCHANGED setup

\* a list handler called with an id, whatever the buttons offer: the state it
\* sends, with the handler and the id it was given as kind and arg
CallWithId(c, field, newList, kind, id) ==
  /\ OutboxRoom(c)
  /\ cmds < MaxCmds
  /\ cmds' = cmds + 1
  /\ local' = [local EXCEPT ![c][field] = newList]
  /\ outbox' = [outbox EXCEPT ![c] =
                  Append(@, [target |-> field, kind |-> kind, arg |-> id,
                             kept |-> (newList = local[c][field]),
                             state |-> listState(field, newList)])]
  /\ UNCHANGED <<now, docs, display, effect, inbox, nextId, last, result, applied, observed>>
  /\ UNCHANGED setup

\* handleRemoveGroceryItem / handleRemoveShoppingItem called with any id
CallRemoveItem(c, field, id) ==
  CallWithId(c, field, filter(local[c][field], id), "removeItem", id)

\* onUpdateItem / onUpdateShoppingItem called with any item
CallUpdateItem(c, field, item) ==
  CallWithId(c, field, mapReplace(local[c][field], item), "updateItem", item.id)

handleAddInstruction(c, text) ==
  /\ nextId <= MaxIds
  /\ Len(local[c].instructions) < MaxLen
  /\ SetList(c, "instructions", local[c].instructions \o instructionsWithIds(<<text>>, nextId))
  /\ nextId' = nextId + 1

handleRemoveInstruction(c, id) ==
  /\ id \in Ids(local[c].instructions)
  /\ SetList(c, "instructions", filter(local[c].instructions, id))
  /\ UNCHANGED nextId

\* ------------------------------------------------------------ app.tsx: timer sync
\* the deadline the countdown effect would capture for this timer, <<>> if it installs no interval
ActiveDeadline(timer) ==
  IF timer.status = "running" /\ Truthy(timer.deadline) THEN timer.deadline ELSE <<>>

\* the state object of syncTimerState built from a default Document
timerStateFromDefault(normalized) ==
  [createDefaultAgentState(0) EXCEPT !.timer = normalized]

\* the state object syncTimerState passes to agent.setState: { timer: normalized }
timerState(normalized) == [timer |-> normalized]

\* normalized = { ...next, updatedAt: Date.now() }
normalize(next, t) == [next EXCEPT !.updatedAt = t]

\* the updater returned the timer it was given, or one equal to it in every
\* field that syncTimerState does not overwrite
Kept(prev, next) == normalize(next, 0) = normalize(prev, 0)

\* Render after the local timer of client c became `timer` with `sent` in its
\* outbox: when status or deadline changed, the countdown effect is cleaned up
\* and run again, and a running timer gets tick() called at once, which
\* finishes it when no time is left.
runEffect(c, timer, sent, captured, shown) ==
  IF ActiveDeadline(timer) = captured
  THEN [timer |-> timer, outbox |-> sent, effect |-> captured, display |-> shown]
  ELSE IF ActiveDeadline(timer) = <<>>
  THEN [timer |-> timer, outbox |-> sent, effect |-> <<>>, display |-> shown]
  ELSE LET msLeft == Max(0, timer.deadline[1] - ClientNow(c))
           finished == normalize(tickFinish(timer), ClientNow(c))
       IN IF msLeft <= 0
          THEN [timer |-> finished,
                outbox |-> Append(sent, [target |-> "timer", kind |-> "tickFinish", arg |-> 0,
                                         kept |-> FALSE,
                                         state |-> timerState(finished)]),
                effect |-> <<>>,
                display |-> getTimerDisplayMs(finished, ClientNow(c))]
          ELSE [timer |-> timer, outbox |-> sent, effect |-> timer.deadline,
                display |-> msLeft]

\* syncTimerState(updater): the updater's result is stamped, stored and sent,
\* and the component is rendered before the task ends; kind and arg name the
\* handler that called it and the delta it was given
SyncTimer(c, next, kind, arg) ==
  /\ OutboxRoom(c)
  /\ cmds < MaxCmds
  /\ cmds' = cmds + 1
  /\ LET normalized == normalize(next, ClientNow(c))
         r == runEffect(c, normalized,
                        Append(outbox[c], [target |-> "timer", kind |-> kind, arg |-> arg,
                                           kept |-> Kept(local[c].timer, next),
                                           state |-> timerState(normalized)]),
                        effect[c], getTimerDisplayMs(normalized, ClientNow(c)))
     IN /\ local' = [local EXCEPT ![c].timer = r.timer]
        /\ outbox' = [outbox EXCEPT ![c] = r.outbox]
        /\ effect' = [effect EXCEPT ![c] = r.effect]
        /\ display' = [display EXCEPT ![c] = r.display]
  /\ UNCHANGED <<now, docs, inbox, nextId, last, result, applied, observed>>
  /\ UNCHANGED setup

\* syncTimerState called by a handler that takes no delta
syncTimerState(c, next, kind) == SyncTimer(c, next, kind, 0)

\* a handler of client c that returns before it calls syncTimerState
ClientReturn(c) ==
  /\ cmds < MaxCmds
  /\ cmds' = cmds + 1
  /\ UNCHANGED <<now, docs, local, display, effect, outbox, inbox, nextId, last, result, applied,
                 observed>>
  /\ UNCHANGED setup

\* a handlePresetSelect that sends the preset whatever its duration
SelectPresetUnchecked(c, totalMs, label) ==
  SyncTimer(c, handlePresetSelect(totalMs, label, ClientNow(c)), "selectPreset", totalMs)

\* the callback handlePresetSelect, minutes already scaled to clock units
SelectPreset(c, totalMs, label) ==
  IF totalMs <= 0
  THEN ClientReturn(c)
  ELSE SyncTimer(c, handlePresetSelect(totalMs, label, ClientNow(c)), "selectPreset", totalMs)

\* onClick of a preset button
PresetSelect(c, preset) == SelectPreset(c, preset.minutes, preset.label)

\* the callback handleStart
CallStart(c) == syncTimerState(c, handleStart(local[c].timer, ClientNow(c)), "start")

\* onClick of the Start button, which is disabled unless canStart
Start(c) ==
  /\ canStart(local[c].timer)
  /\ CallStart(c)

\* the callback handlePause
CallPause(c) == syncTimerState(c, handlePause(local[c].timer, ClientNow(c)), "pause")

\* onClick of the Pause button, which is disabled unless canPause
Pause(c) ==
  /\ canPause(local[c].timer)
  /\ CallPause(c)

Reset(c) ==
  /\ canReset(local[c].timer)
  /\ syncTimerState(c, handleReset(local[c].timer, ClientNow(c)), "reset")

\* a Clear button that does what the Reset button does
ClearAsReset(c) == syncTimerState(c, handleReset(local[c].timer, ClientNow(c)), "clear")

\* the callback handleClear
Clear(c) == syncTimerState(c, handleClear(ClientNow(c)), "clear")

AddTime(c, msToAdd) ==
  /\ local[c].timer.totalMs + msToAdd <= MaxMs
  /\ SyncTimer(c, handleAddTime(local[c].timer, msToAdd, ClientNow(c)), "addTime", msToAdd)

\* a tick that shows the time left and never reports the finish
TickShowsOnly(c) ==
  /\ effect[c] # <<>>
  /\ display' = [display EXCEPT ![c] = Max(0, effect[c][1] - ClientNow(c))]
  /\ UNCHANGED <<now, docs, local, effect, outbox, inbox, nextId, last, cmds, result, applied,
                 observed>>
  /\ UNCHANGED setup

\* a tick that reports the finish whenever it runs
TickAlways(c) ==
  /\ effect[c] # <<>>
  /\ syncTimerState(c, tickFinish(local[c].timer), "tickFinish")

\* the interval callback of the countdown effect: it shows the time left on
\* the captured deadline and, when none is left, reports the finish
Tick(c) ==
  /\ effect[c] # <<>>
  /\ LET msLeft == Max(0, effect[c][1] - ClientNow(c))
     IN IF msLeft <= 0
        THEN syncTimerState(c, tickFinish(local[c].timer), "tickFinish")
        ELSE /\ display' = [display EXCEPT ![c] = msLeft]
             /\ UNCHANGED <<now, docs, local, effect, outbox, inbox, nextId, last, cmds, result,
                            applied, observed>>
             /\ UNCHANGED setup

\* React renders a state received from the actor and re-runs the countdown effect
RunEffect(c) ==
  /\ ActiveDeadline(local[c].timer) # effect[c]
  /\ LET r == runEffect(c, local[c].timer, outbox[c], effect[c], display[c])
     IN /\ (r.outbox # outbox[c] => OutboxRoom(c))
        /\ local' = [local EXCEPT ![c].timer = r.timer]
        /\ outbox' = [outbox EXCEPT ![c] = r.outbox]
        /\ effect' = [effect EXCEPT ![c] = r.effect]
        /\ display' = [display EXCEPT ![c] = r.display]
  /\ UNCHANGED <<now, docs, inbox, nextId, last, cmds, result, applied, observed>>
  /\ UNCHANGED setup

AdvanceTime ==
  /\ now < MaxTime
  /\ now' = now + 1
  /\ UNCHANGED <<docs, local, display, effect, outbox, inbox, nextId, last, cmds, result, applied,
                 observed>>
  /\ UNCHANGED setup

\* ------------------------------------------------------------ specification
\* what every run starts with: the clock, empty channels, no command issued
Started ==
  /\ now = 1
  /\ outbox = [c \in Clients |-> <<>>]
  /\ inbox = [c \in Clients |-> <<>>]
  /\ nextId = 1
  /\ last = [src |-> "none", field |-> "none", kind |-> "none", session |-> "none"]
  /\ result = NoResult

\* sessions nobody has used yet, with both clients subscribed to the same one
Init ==
  /\ Started
  /\ agentId = [c \in Clients |-> "X"]
  /\ room = MaxInbox
  /\ docs = [s \in Sessions |-> createDefaultAgentState(ServerNow)]
  /\ local = [c \in Clients |-> docs[agentId[c]]]
  /\ display = [c \in Clients |-> getTimerDisplayMs(docs[agentId[c]].timer, ClientNow(c))]
  /\ effect = [c \in Clients |-> <<>>]
  /\ applied = [s \in Sessions |-> 0]
  /\ observed = [c \in Clients |-> 0]
  /\ cmds = 0

\* ids of the entries a session had before the run; the run's ids are 1, 2, ...
LoadedId(k) == 0 - k

\* a session whose three lists were filled earlier and whose timer was never set
InitSession ==
  /\ Started
  /\ agentId = [c \in Clients |-> "X"]
  /\ room = MaxInbox
  /\ docs = [s \in Sessions |->
               [timer |-> createDefaultTimerState(ServerNow),
                groceryList |-> <<[id |-> LoadedId(1), name |-> "Eggs", quantity |-> "1",
                                   expiryDate |-> NoExpiry]>>,
                shoppingList |-> <<[id |-> LoadedId(2), name |-> "eggs", quantity |-> "1",
                                    expiryDate |-> NoExpiry]>>,
                instructions |-> <<[id |-> LoadedId(3), text |-> "Boil"]>>]]
  /\ local = [c \in Clients |-> docs[agentId[c]]]
  /\ display = [c \in Clients |-> getTimerDisplayMs(docs[agentId[c]].timer, ClientNow(c))]
  /\ effect = [c \in Clients |-> <<>>]
  /\ applied = [s \in Sessions |-> 1]
  /\ observed = [c \in Clients |-> 1]
  /\ cmds = 0

ClientTimerCommand(c) ==
  \/ \E preset \in PRESET_TIMERS : PresetSelect(c, preset)
  \/ Start(c)
  \/ Pause(c)
  \/ Reset(c)
  \/ Clear(c)
  \/ \E msToAdd \in AddTimeDeltas : AddTime(c, msToAdd)
  \/ Tick(c)

\* an edited copy of a displayed item
Edited(list, id, input) ==
  [id |-> id, name |-> input.name, quantity |-> input.quantity, expiryDate |-> input.expiryDate]

ClientListCommand(c) ==
  \/ \E item \in ItemInputs : handleAddGroceryItem(c, item)
  \/ \E id \in Ids(local[c].groceryList) : handleRemoveGroceryItem(c, id)
  \/ \E id \in Ids(local[c].groceryList), input \in ItemInputs :
       onUpdateItem(c, Edited(local[c].groceryList, id, input))
  \/ \E item \in ItemInputs : handleAddShoppingItem(c, item)
  \/ \E id \in Ids(local[c].shoppingList) : handleRemoveShoppingItem(c, id)
  \/ \E id \in Ids(local[c].shoppingList), input \in ItemInputs :
       onUpdateShoppingItem(c, Edited(local[c].shoppingList, id, input))
  \/ \E text \in Texts : handleAddInstruction(c, text)
  \/ \E id \in Ids(local[c].instructions) : handleRemoveInstruction(c, id)

ToolListCommand(s) ==
  \/ \E items \in ItemBatches : addGroceryItems(s, items)
  \/ \E name \in AskedNames : deleteGroceryItem(s, name)
  \/ \E items \in ItemBatches : addShoppingListItems(s, items)
  \/ \E name \in AskedNames : deleteShoppingListItem(s, name)
  \/ \E texts \in TextBatches : addInstruction(s, texts)
  \/ \E index \in 0..(MaxLen + 1) : deleteInstruction(s, index)

ToolTimerCommand(s) == \E totalMs \in 0..MaxDur : setTimer(s, totalMs, NoLabel)

\* the sessions a tool can run in: a tool runs in the actor of the client whose
\* chat message called for it
Served == {agentName(c) : c \in Clients}

\* every command of every source
Next ==
  \/ \E c \in Clients : ClientTimerCommand(c)
  \/ \E c \in Clients : ClientListCommand(c)
  \/ \E s \in Served : ToolListCommand(s)
  \/ \E s \in Served : ToolTimerCommand(s)
  \/ \E c \in Clients : ActorReceive(c)
  \/ \E c \in Clients : Receive(c)
  \/ \E c \in Clients : RunEffect(c)
  \/ AdvanceTime

Spec == Init /\ [][Next]_vars

\* the timer: every timer command of every source on a session with filled
\* lists, and one list command beside them
TimerNext ==
  \/ \E c \in Clients : ClientTimerCommand(c)
  \/ \E s \in Served : ToolTimerCommand(s)
  \/ \E s \in Served, index \in 0..(MaxLen + 1) : deleteInstruction(s, index)
  \/ \E c \in Clients : ActorReceive(c)
  \/ \E c \in Clients : Receive(c)
  \/ \E c \in Clients : RunEffect(c)
  \/ AdvanceTime

SpecTimer == InitSession /\ [][TimerNext]_vars

\* the lists: every list command of every source on a fresh session, with the
\* timer set beside them by a preset or by the setTimer tool
ListNext ==
  \/ \E c \in Clients, preset \in PRESET_TIMERS : PresetSelect(c, preset)
  \/ \E s \in Served : ToolTimerCommand(s)
  \/ \E c \in Clients : ClientListCommand(c)
  \/ \E s \in Served : ToolListCommand(s)
  \/ \E c \in Clients : ActorReceive(c)
  \/ \E c \in Clients : Receive(c)
  \/ \E c \in Clients : RunEffect(c)

SpecLists == Init /\ [][ListNext]_vars

\* the order of delivery: the commands of SpecLists on connections that hold
\* more than one undelivered broadcast
InitOrder ==
  /\ Started
  /\ agentId = [c \in Clients |-> "X"]
  /\ room = MaxBacklog
  /\ docs = [s \in Sessions |-> createDefaultAgentState(ServerNow)]
  /\ local = [c \in Clients |-> docs[agentId[c]]]
  /\ display = [c \in Clients |-> getTimerDisplayMs(docs[agentId[c]].timer, ClientNow(c))]
  /\ effect = [c \in Clients |-> <<>>]
  /\ applied = [s \in Sessions |-> 0]
  /\ observed = [c \in Clients |-> 0]
  /\ cmds = 0

OrderNext ==
  \/ \E c \in Clients, preset \in PRESET_TIMERS : PresetSelect(c, preset)
  \/ \E c \in Clients, item \in ItemInputs : handleAddGroceryItem(c, item)
  \/ \E s \in Served : ToolTimerCommand(s)
  \/ \E s \in Served, texts \in TextBatches : addInstruction(s, texts)
  \/ \E c \in Clients : ActorReceive(c)
  \/ \E c \in Clients : Receive(c)
  \/ \E c \in Clients : RunEffect(c)

SpecOrder == InitOrder /\ [][OrderNext]_vars

\* two sessions: client A opened the page with one identifier, client B with another
InitSessions ==
  /\ Started
  /\ agentId = [c \in Clients |-> IF c = "A" THEN "X" ELSE "Y"]
  /\ room = MaxInbox
  /\ docs = [s \in Sessions |-> createDefaultAgentState(ServerNow)]
  /\ local = [c \in Clients |-> docs[agentId[c]]]
  /\ display = [c \in Clients |-> getTimerDisplayMs(docs[agentId[c]].timer, ClientNow(c))]
  /\ effect = [c \in Clients |-> <<>>]
  /\ applied = [s \in Sessions |-> 0]
  /\ observed = [c \in Clients |-> 0]
  /\ cmds = 0

SpecSessions == InitSessions /\ [][ListNext]_vars

\* the timers a session can hold when a command arrives: the default, a paused
\* or finished one, or a running one whose deadline no client has reached
TimerInputs ==
  {createDefaultTimerState(1)} \cup
  {t \in [status : {"running", "paused", "finished"}, totalMs : 0..MaxMs,
          remainingMs : 0..MaxMs,
          deadline : {NoDeadline} \cup {<<d>> : d \in (MaxSkew + 2)..(MaxSkew + 1 + MaxMs)},
          label : {"Rice"}, updatedAt : {1}] :
     /\ (t.status = "running") <=> (t.deadline # NoDeadline)
     /\ t.status = "running" => t.remainingMs > 0
     /\ t.status = "finished" => t.remainingMs = 0}

\* one command on a session whose timer is any of TimerInputs
InitTimers ==
  /\ Started
  /\ agentId = [c \in Clients |-> "X"]
  /\ room = MaxInbox
  /\ \E timer \in TimerInputs :
       /\ docs = [s \in Sessions |-> [createDefaultAgentState(1) EXCEPT !.timer = timer]]
       /\ effect = [c \in Clients |-> ActiveDeadline(timer)]
  /\ local = [c \in Clients |-> docs[agentId[c]]]
  /\ display = [c \in Clients |-> getTimerDisplayMs(docs[agentId[c]].timer, ClientNow(c))]
  /\ applied = [s \in Sessions |-> 1]
  /\ observed = [c \in Clients |-> 1]
  /\ cmds = MaxCmds - 1

UpdaterNext ==
  \/ \E c \in Clients : ClientTimerCommand(c)
  \/ \E c \in Clients : ActorReceive(c)
  \/ \E c \in Clients : Receive(c)
  \/ \E c \in Clients : RunEffect(c)
  \/ AdvanceTime

SpecUpdaters == InitTimers /\ [][UpdaterNext]_vars

\* the names of the items a list holds at the start of a deletion
StoredNames == Names \cup {"Milk"}

\* the lists of up to MaxDrawn items with those names, in every order
ListInputs ==
  {[k \in 1..Len(names) |->
      [id |-> LoadedId(k), name |-> names[k], quantity |-> "1", expiryDate |-> NoExpiry]] :
   names \in UNION {[1..n -> StoredNames] : n \in 0..MaxDrawn}}

\* one delete-by-name on a session whose two item lists are any of ListInputs
InitLists ==
  /\ Started
  /\ agentId = [c \in Clients |-> "X"]
  /\ room = MaxInbox
  /\ \E groceryList \in ListInputs, shoppingList \in ListInputs :
       docs = [s \in Sessions |->
                 [createDefaultAgentState(1) EXCEPT
                    !.groceryList = groceryList, !.shoppingList = shoppingList]]
  /\ local = [c \in Clients |-> docs[agentId[c]]]
  /\ display = [c \in Clients |-> getTimerDisplayMs(docs[agentId[c]].timer, ClientNow(c))]
  /\ effect = [c \in Clients |-> <<>>]
  /\ applied = [s \in Sessions |-> 1]
  /\ observed = [c \in Clients |-> 1]
  /\ cmds = MaxCmds - 1

DeleteNext ==
  \/ \E s \in Served, name \in AskedNames : deleteGroceryItem(s, name)
  \/ \E s \in Served, name \in AskedNames : deleteShoppingListItem(s, name)
  \/ \E c \in Clients : Receive(c)

SpecDelete == InitLists /\ [][DeleteNext]_vars

\* the texts of the instructions a list holds at the start of a deletion
StoredTexts == Texts \cup {"Stir"}

\* the instruction lists of up to MaxDrawn steps with those texts
InstructionInputs ==
  {[k \in 1..Len(texts) |-> [id |-> LoadedId(k), text |-> texts[k]]] :
   texts \in UNION {[1..n -> StoredTexts] : n \in 0..MaxDrawn}}

\* one delete-by-index on a session whose instructions are any of InstructionInputs
InitIndex ==
  /\ Started
  /\ agentId = [c \in Clients |-> "X"]
  /\ room = MaxInbox
  /\ \E instructions \in InstructionInputs :
       docs = [s \in Sessions |-> [createDefaultAgentState(1) EXCEPT !.instructions = instructions]]
  /\ local = [c \in Clients |-> docs[agentId[c]]]
  /\ display = [c \in Clients |-> getTimerDisplayMs(docs[agentId[c]].timer, ClientNow(c))]
  /\ effect = [c \in Clients |-> <<>>]
  /\ applied = [s \in Sessions |-> 1]
  /\ observed = [c \in Clients |-> 1]
  /\ cmds = MaxCmds - 1

\* the indices a call can carry: every position, and one before and one after
Indices == 0..(MaxDrawn + 1)

IndexNext ==
  \/ \E s \in Served, index \in Indices : deleteInstruction(s, index)
  \/ \E c \in Clients : Receive(c)

SpecIndex == InitIndex /\ [][IndexNext]_vars

\* the items of a list
Items(list) == {list[k] : k \in 1..Len(list)}

\* a client's commands on the items of its two lists: the forms, the trash and
\* edit buttons of every displayed item, and the Bought button of every
\* displayed shopping item
ClientItemCommand(c) ==
  \/ \E item \in ItemInputs : handleAddGroceryItem(c, item)
  \/ \E id \in Ids(local[c].groceryList) : handleRemoveGroceryItem(c, id)
  \/ \E id \in Ids(local[c].groceryList), input \in ItemInputs :
       onUpdateItem(c, Edited(local[c].groceryList, id, input))
  \/ \E item \in ItemInputs : handleAddShoppingItem(c, item)
  \/ \E id \in Ids(local[c].shoppingList) : handleRemoveShoppingItem(c, id)
  \/ \E id \in Ids(local[c].shoppingList), input \in ItemInputs :
       onUpdateShoppingItem(c, Edited(local[c].shoppingList, id, input))
  \/ \E item \in Items(local[c].shoppingList) : onMarkAsBought(c, item)

\* the items of both lists, on a session with filled lists
ItemNext ==
  \/ \E c \in Clients : ClientItemCommand(c)
  \/ \E c \in Clients : ActorReceive(c)
  \/ \E c \in Clients : Receive(c)

SpecItems == InitSession /\ [][ItemNext]_vars

\* timers that were just started: all of the total remains
StartedInputs == {t \in TimerInputs : t.status = "running" /\ t.remainingMs = t.totalMs}

\* two calls on a session whose timer is any of StartedInputs
InitRound ==
  /\ Started
  /\ agentId = [c \in Clients |-> "X"]
  /\ room = MaxInbox
  /\ \E timer \in StartedInputs :
       /\ docs = [s \in Sessions |-> [createDefaultAgentState(1) EXCEPT !.timer = timer]]
       /\ effect = [c \in Clients |-> ActiveDeadline(timer)]
  /\ local = [c \in Clients |-> docs[agentId[c]]]
  /\ display = [c \in Clients |-> getTimerDisplayMs(docs[agentId[c]].timer, ClientNow(c))]
  /\ applied = [s \in Sessions |-> 1]
  /\ observed = [c \in Clients |-> 1]
  /\ cmds = MaxCmds - 2

\* pauses and starts of a running timer, while time passes
RoundNext ==
  \/ \E c \in Clients : CallPause(c)
  \/ \E c \in Clients : CallStart(c)
  \/ \E c \in Clients : Tick(c)
  \/ \E c \in Clients : ActorReceive(c)
  \/ \E c \in Clients : Receive(c)
  \/ \E c \in Clients : RunEffect(c)
  \/ AdvanceTime

SpecRound == InitRound /\ [][RoundNext]_vars

\* the ids a call can carry: those of the drawn items, and one that none has
CallIds == {LoadedId(k) : k \in 1..(MaxDrawn + 1)}

\* the items a call of an update can carry
CallItems ==
  [id : CallIds, name : {"Milk"}, quantity : {"2"}, expiryDate : {NoExpiry}]

\* the lists of up to MaxDrawn items, each with an id of its own
EditInputs ==
  {[k \in 1..n |->
      [id |-> LoadedId(k), name |-> "Eggs", quantity |-> "1", expiryDate |-> NoExpiry]] :
   n \in 0..MaxDrawn}

\* one call on a session whose two item lists are any of EditInputs
InitEdits ==
  /\ Started
  /\ agentId = [c \in Clients |-> "X"]
  /\ room = MaxInbox
  /\ \E groceryList \in EditInputs, shoppingList \in EditInputs :
       docs = [s \in Sessions |->
                 [createDefaultAgentState(1) EXCEPT
                    !.groceryList = groceryList, !.shoppingList = shoppingList]]
  /\ local = [c \in Clients |-> docs[agentId[c]]]
  /\ display = [c \in Clients |-> getTimerDisplayMs(docs[agentId[c]].timer, ClientNow(c))]
  /\ effect = [c \in Clients |-> <<>>]
  /\ applied = [s \in Sessions |-> 1]
  /\ observed = [c \in Clients |-> 1]
  /\ cmds = MaxCmds - 1

\* one remove or update by id
EditNext ==
  \/ \E c \in Clients, field \in {"groceryList", "shoppingList"}, id \in CallIds :
       CallRemoveItem(c, field, id)
  \/ \E c \in Clients, field \in {"groceryList", "shoppingList"}, item \in CallItems :
       CallUpdateItem(c, field, item)
  \/ \E c \in Clients : ActorReceive(c)
  \/ \E c \in Clients : Receive(c)

SpecEdits == InitEdits /\ [][EditNext]_vars

\* additions only: the two add forms of each client on a fresh session
AddNext ==
  \/ \E c \in Clients, item \in ItemInputs : handleAddGroceryItem(c, item)
  \/ \E c \in Clients, item \in ItemInputs : handleAddShoppingItem(c, item)
  \/ \E c \in Clients : ActorReceive(c)
  \/ \E c \in Clients : Receive(c)

SpecAdds == Init /\ [][AddNext]_vars

\* the presets a call of handlePresetSelect can carry: the buttons' and one without duration
CallPresets ==
  {[label |-> "None", minutes |-> 0], [label |-> "Rice", minutes |-> 1],
   [label |-> "Pasta", minutes |-> MaxMs]}

\* the label of the preset with that duration
LabelOf(minutes) == (CHOOSE preset \in CallPresets : preset.minutes = minutes).label

\* running timers whose deadline has come and whose next tick has not
DueInputs ==
  {[t EXCEPT !.deadline = <<MaxSkew + 1>>] : t \in {u \in TimerInputs : u.status = "running"}}

\* one call on a session whose timer is any of TimerInputs or DueInputs
InitCalls ==
  /\ Started
  /\ agentId = [c \in Clients |-> "X"]
  /\ room = MaxInbox
  /\ \E timer \in TimerInputs \cup DueInputs :
       /\ docs = [s \in Sessions |-> [createDefaultAgentState(1) EXCEPT !.timer = timer]]
       /\ effect = [c \in Clients |-> ActiveDeadline(timer)]
  /\ local = [c \in Clients |-> docs[agentId[c]]]
  /\ display = [c \in Clients |-> getTimerDisplayMs(docs[agentId[c]].timer, ClientNow(c))]
  /\ applied = [s \in Sessions |-> 1]
  /\ observed = [c \in Clients |-> 1]
  /\ cmds = MaxCmds - 1

\* the timer callbacks with any argument and on any timer, whatever the buttons allow
CallNext ==
  \/ \E c \in Clients, preset \in CallPresets : SelectPreset(c, preset.minutes, preset.label)
  \/ \E c \in Clients : CallStart(c)
  \/ \E c \in Clients : CallPause(c)
  \/ \E c \in Clients : Clear(c)
  \/ \E c \in Clients, msToAdd \in AddTimeDeltas : AddTime(c, msToAdd)
  \/ \E c \in Clients : Tick(c)
  \/ \E c \in Clients : ActorReceive(c)
  \/ \E c \in Clients : Receive(c)
  \/ \E c \in Clients : RunEffect(c)
  \/ AdvanceTime

SpecCalls == InitCalls /\ [][CallNext]_vars

\* ------------------------------------------------------------ properties
\* every timer value held by the actor or by a client
Timers == {doc.timer} \cup {local[c].timer : c \in Clients}

\* this step is the actor applying the next state sent by client c
ActorApplies(c) == outbox[c] # <<>> /\ outbox'[c] = Tail(outbox[c])

\* this step is the actor applying a command of any source
Applied == \E c \in Clients : Len(inbox'[c]) = Len(inbox[c]) + 1

\* nothing is in flight in either direction
Quiescent == \A c \in Clients : outbox[c] = <<>> /\ inbox[c] = <<>>

\* C1: a list command of a client or of a tool, when the actor applies it,
\* leaves every field of the canonical timer as it was.
C1_ListCommandKeepsTimer ==
  [][(Applied /\ last'.field \in ListFields) => doc'.timer = doc.timer]_vars

\* a client's grocery command was applied while the canonical timer was running
C1_Witness ==
  /\ last.src \in Clients
  /\ last.field = "groceryList"
  /\ doc.groceryList # <<>>
  /\ doc.timer.status = "running"

\* C2: a timer command of a client (finish observations included) or of the
\* setTimer tool, when the actor applies it, leaves the three lists as they were.
C2_TimerCommandKeepsLists ==
  [][(Applied /\ last'.field = "timer") => \A f \in ListFields : doc'[f] = doc[f]]_vars

\* a client's finish observation was applied to a session whose lists are filled
C2_Witness ==
  /\ last.src \in Clients
  /\ last.kind = "tickFinish"
  /\ doc.timer.status = "finished"
  /\ doc.groceryList # <<>>
  /\ doc.shoppingList # <<>>

\* C3: when the actor applies a command to one field right after a command of
\* another source to a different field, the field written first keeps its
\* value, and a client's command leaves its own value in its field.
C3_LaterCommandKeepsEarlierField ==
  [][\A f \in Fields :
       (Applied /\ last.field = f /\ last'.field # f /\ last'.src # last.src)
         => /\ doc'[f] = doc[f]
            /\ \A c \in Clients :
                 ActorApplies(c) => doc'[last'.field] = Head(outbox[c]).state[last'.field]]_vars

\* client B's grocery command was applied after client A's preset: both are there
C3_Witness ==
  /\ cmds = 2
  /\ last.src = "B"
  /\ last.field = "groceryList"
  /\ doc.groceryList # <<>>
  /\ doc.timer.label = "Rice"
  /\ doc.timer.status = "paused"

\* C4: when every command has been applied and every broadcast handled, and the
\* canonical timer is not running, each client's local copy is the canonical
\* Document in all four fields.
C4_Convergence ==
  (Quiescent /\ doc.timer.status # "running") => \A c \in Clients : local[c] = doc

\* after a finish observation and the tool's delete everything is delivered
C4_Witness ==
  /\ Quiescent
  /\ cmds >= 2
  /\ doc.timer.status = "finished"
  /\ doc.instructions = <<>>
  /\ \A c \in Clients : local[c] = doc

\* C5: in the canonical timer and in every local timer, the deadline is present
\* exactly when the status is running.
C5_DeadlineIffRunning ==
  \A t \in Timers : (t.status = "running") <=> (t.deadline # NoDeadline)

\* a client has paused a timer that is still running in the canonical Document
C5_Witness ==
  /\ doc.timer.status = "running"
  /\ \E c \in Clients : local[c].timer.status = "paused" /\ local[c].timer.totalMs > 0

\* C6: in the canonical timer and in every local timer, totalMs is 0 exactly
\* when the status is idle and remainingMs is 0.
C6_IdleIffNoTotal ==
  \A t \in Timers : (t.totalMs = 0) <=> (t.status = "idle" /\ t.remainingMs = 0)

\* C7: a finished timer has remainingMs 0 and no deadline.
C7_FinishedHasNothingLeft ==
  \A t \in Timers : t.status = "finished" => (t.remainingMs = 0 /\ t.deadline = NoDeadline)

\* the canonical timer was finished by a client's observation
C7_Witness ==
  /\ doc.timer.status = "finished"
  /\ doc.timer.totalMs > 0
  /\ last.kind = "tickFinish"

\* C8: remainingMs and totalMs are never negative.
C8_NeverNegative ==
  \A t \in Timers : t.remainingMs >= 0 /\ t.totalMs >= 0

\* a client paused at or after the deadline: nothing is left, and a total remains
C8_Witness ==
  \E c \in Clients :
    /\ local[c].timer.status = "paused"
    /\ local[c].timer.remainingMs = 0
    /\ local[c].timer.totalMs > 0

Handles(c) == inbox[c] # <<>> /\ inbox'[c] = Tail(inbox[c])

\* this step is client c sending a state to its actor, and the state it sends first
Sends(c) == Len(outbox'[c]) > Len(outbox[c])
Sent(c) == outbox'[c][Len(outbox[c]) + 1]

\* this step is a tool returning without a write
Returns == cmds' = cmds + 1 /\ outbox' = outbox /\ applied' = applied

\* C11: every client handles the Documents of its session in the order its
\* actor applied the commands: each broadcast it handles was produced later
\* than the one it handled before.
C11_SameOrder ==
  [][\A c \in Clients : observed'[c] # observed[c] => observed'[c] > observed[c]]_vars

\* one client has handled three Documents while the other, with the first
\* handled, still has the next two waiting
C11_Witness ==
  \E c1, c2 \in Clients :
    /\ observed[c1] = 3
    /\ observed[c2] = 1
    /\ Len(inbox[c2]) = 2

\* C12: when a client has handled a broadcast, its local timer, groceryList,
\* shoppingList and instructions are those of the broadcast Document.
C12_BroadcastReplacesLocal ==
  [][\A c \in Clients : Handles(c) => local'[c] = Head(inbox[c]).state]_vars

\* a client whose own command is still on its way has handled a broadcast that
\* took the value of that command out of its local copy
C12_Witness ==
  \E c \in Clients :
    /\ outbox[c] # <<>>
    /\ inbox[c] = <<>>
    /\ observed[c] > 0
    /\ local[c] = docs[agentId[c]]
    /\ Head(outbox[c]).target = "groceryList"
    /\ Head(outbox[c]).state.groceryList # local[c].groceryList

\* C13: a tool call that returns a rejection writes nothing: every canonical
\* Document, every channel and every local copy is as before; and setTimer,
\* the delete-by-name tools and deleteInstruction return a rejection exactly
\* for a duration that is not positive, a name no item has, an index out of range.
C13_RejectionWritesNothing ==
  [][/\ (Returns /\ result' \in Rejections)
          => (docs' = docs /\ inbox' = inbox /\ local' = local)
     /\ (Applied /\ last'.kind = "setTimer") => docs'[last'.session].timer.totalMs > 0
     /\ (Applied /\ last'.kind \in {"deleteGroceryItem", "deleteShoppingListItem",
                                     "deleteInstruction"})
          => Len(docs'[last'.session][last'.field]) = Len(docs[last'.session][last'.field]) - 1
     /\ \A f \in {"groceryList", "shoppingList"}, name \in AskedNames :
          (Returns /\ result' = NotFound(f, name))
            => \A k \in 1..Len(doc[f]) : toLowerCase(doc[f][k].name) # toLowerCase(name)]_vars

\* a delete-by-name found no item with the name in a list that holds other items
C13_Witness ==
  /\ result = NotFound("groceryList", "Milk")
  /\ doc.groceryList # <<>>
  /\ doc.timer.status = "running"

\* C14: the set-timer request of the tool replaces the timer with a paused
\* timer of the duration: total and remaining equal and positive, no deadline.
C14_SetTimerYieldsPaused ==
  [][(Applied /\ last'.kind = "setTimer")
       => LET timer == docs'[last'.session].timer
          IN /\ timer.status = "paused"
             /\ timer.totalMs > 0
             /\ timer.remainingMs = timer.totalMs
             /\ timer.deadline = NoDeadline]_vars

\* C15: addTime on a running timer with deadline D whose remainingMs plus the
\* delta is positive sends a running timer with deadline D plus the delta.
C15_AddTimeExtendsDeadline ==
  [][\A c \in Clients :
       (/\ Sends(c)
        /\ Sent(c).kind = "addTime"
        /\ local[c].timer.status = "running"
        /\ local[c].timer.remainingMs + Sent(c).arg > 0)
         => /\ Sent(c).state.timer.status = "running"
            /\ Sent(c).state.timer.deadline = <<local[c].timer.deadline[1] + Sent(c).arg>>]_vars

\* C16: addTime on a timer with totalMs > 0 whose remainingMs plus the delta
\* is not positive sends the idle default, whatever the status was; so no
\* addTime on such a timer sends a timer that is not idle with nothing remaining.
C16_AddTimeCancels ==
  [][\A c \in Clients :
       (/\ Sends(c)
        /\ Sent(c).kind = "addTime"
        /\ local[c].timer.totalMs > 0)
         => LET timer == Sent(c).state.timer
            IN /\ local[c].timer.remainingMs + Sent(c).arg <= 0
                    => /\ timer.status = "idle"
                       /\ timer.totalMs = 0
                       /\ timer.remainingMs = 0
                       /\ timer.deadline = NoDeadline
                       /\ timer.label = NoLabel
               /\ timer.status # "idle" => timer.remainingMs > 0]_vars

\* a client has cancelled a finished timer with a negative addTime
C16_Witness ==
  \E c \in Clients :
    /\ outbox[c] # <<>>
    /\ Head(outbox[c]).kind = "addTime"
    /\ Head(outbox[c]).arg < 0
    /\ Head(outbox[c]).state.timer.status = "idle"
    /\ local[c].timer.status = "idle"
    /\ doc.timer.status = "finished"
    /\ doc.timer.totalMs > 0

\* C17: reset on a timer with totalMs > 0 sends a paused timer with remainingMs
\* equal to totalMs and no deadline, whatever the status was; reset on a timer
\* with totalMs 0 sends the idle default.
C17_ResetRestoresTotal ==
  [][\A c \in Clients :
       (Sends(c) /\ Sent(c).kind = "reset")
         => LET timer == Sent(c).state.timer
            IN IF local[c].timer.totalMs > 0
               THEN /\ timer.status = "paused"
                    /\ timer.totalMs = local[c].timer.totalMs
                    /\ timer.remainingMs = timer.totalMs
                    /\ timer.deadline = NoDeadline
               ELSE /\ timer.status = "idle"
                    /\ timer.totalMs = 0
                    /\ timer.remainingMs = 0
                    /\ timer.deadline = NoDeadline
                    /\ timer.label = NoLabel]_vars

\* a client has reset a finished timer and holds it paused with all its time
C17_Witness ==
  \E c \in Clients :
    /\ outbox[c] # <<>>
    /\ Head(outbox[c]).kind = "reset"
    /\ local[c].timer.status = "paused"
    /\ local[c].timer.remainingMs = local[c].timer.totalMs
    /\ doc.timer.status = "finished"
    /\ doc.timer.totalMs > 0

\* the list without its k-th item
Without(list, k) == [j \in 1..(Len(list) - 1) |-> IF j < k THEN list[j] ELSE list[j + 1]]

C19_SessionsIndependent ==
  [][Applied
       => /\ \A s \in Sessions \ {last'.session} : docs'[s] = docs[s]
          /\ \A c \in Clients : agentId[c] # last'.session => inbox'[c] = inbox[c]]_vars

\* both sessions have had commands applied and hold different Documents, and
\* each client holds the Document of its own session
C19_Witness ==
  /\ applied["X"] > 0
  /\ applied["Y"] > 0
  /\ docs["X"].groceryList # docs["Y"].groceryList
  /\ docs["X"].timer.status # docs["Y"].timer.status
  /\ \A c \in Clients : inbox[c] = <<>> /\ local[c] = docs[agentId[c]]

\* C20: the Document of a session whose actor has applied no command is the
\* fresh default: an idle timer with totalMs 0, remainingMs 0 and no deadline,
\* which satisfies the timer invariants, and three empty lists.
C20_FreshDefault ==
  \A s \in Sessions :
    applied[s] = 0
      => /\ docs[s].timer.status = "idle"
         /\ docs[s].timer.totalMs = 0
         /\ docs[s].timer.remainingMs = 0
         /\ docs[s].timer.deadline = NoDeadline
         /\ docs[s].groceryList = <<>>
         /\ docs[s].shoppingList = <<>>
         /\ docs[s].instructions = <<>>

\* one session has had three commands applied, the other none
C20_Witness ==
  /\ applied["X"] = 3
  /\ applied["Y"] = 0
  /\ docs["X"] # docs["Y"]

\* C21: when every add issued by a client has been applied by the actor, the
\* canonical lists hold every item added: no add is lost, whichever copy the
\* issuing client held.
C21_NoAddLost ==
  (\A c \in Clients : outbox[c] = <<>>)
    => \A id \in 1..(nextId - 1) : id \in Ids(doc.groceryList) \cup Ids(doc.shoppingList)

\* C22: a start, pause or addTime whose updater kept the issuing client's
\* timer as it was (start while running or with nothing to run, pause while
\* not running, addTime of a non-positive delta on an empty timer), when the
\* actor applies it, changes no field of the canonical timer but the stamp.
C22_NoOpKeepsCanonical ==
  [][\A c \in Clients :
       (/\ ActorApplies(c)
        /\ Head(outbox[c]).kind \in {"start", "pause", "addTime"}
        /\ Head(outbox[c]).kept)
         => Kept(doc.timer, doc'.timer)]_vars

\* the state client c sends first in this step, and the timer it held before
SentTimer(c) == Sent(c).state.timer
Prev(c) == local[c].timer

\* this step is a handler of a client returning without sending anything
Rejects == cmds' = cmds + 1 /\ outbox' = outbox /\ applied' = applied

\* C23: selectPreset with a positive duration sends, whatever the timer was, a
\* paused timer with totalMs = remainingMs = the duration, the label given and
\* no deadline; with a duration that is not positive it sends nothing and
\* changes nothing.
C23_PresetReplaces ==
  [][/\ \A c \in Clients :
          (Sends(c) /\ Sent(c).kind = "selectPreset")
            => /\ Sent(c).arg > 0
               /\ SentTimer(c).status = "paused"
               /\ SentTimer(c).totalMs = Sent(c).arg
               /\ SentTimer(c).remainingMs = Sent(c).arg
               /\ SentTimer(c).label = LabelOf(Sent(c).arg)
               /\ SentTimer(c).deadline = NoDeadline
               /\ local'[c].timer = SentTimer(c)
     /\ Rejects => (docs' = docs /\ local' = local /\ inbox' = inbox /\ effect' = effect)]_vars

\* a client has replaced a running Rice timer with the Pasta preset, which the
\* actor has not applied yet
C23_Witness ==
  \E c \in Clients :
    /\ outbox[c] # <<>>
    /\ Head(outbox[c]).kind = "selectPreset"
    /\ local[c].timer.status = "paused"
    /\ local[c].timer.label = "Pasta"
    /\ local[c].timer.totalMs = MaxMs
    /\ effect[c] = <<>>
    /\ doc.timer.status = "running"
    /\ doc.timer.label = "Rice"

\* C24: start at client time t on a timer that is not running, with baseline
\* = remainingMs if that is positive and totalMs otherwise, sends a running
\* timer with remainingMs = baseline and deadline = t + baseline when baseline
\* is positive, and the idle timer otherwise; start on a running timer sends
\* its status, remainingMs and deadline as they were.
C24_StartFromBaseline ==
  [][\A c \in Clients :
       (Sends(c) /\ Sent(c).kind = "start")
         => LET prev == Prev(c)
                timer == SentTimer(c)
                baseline == IF prev.remainingMs > 0 THEN prev.remainingMs ELSE prev.totalMs
            IN IF prev.status = "running"
               THEN /\ timer.status = "running"
                    /\ timer.remainingMs = prev.remainingMs
                    /\ timer.deadline = prev.deadline
               ELSE IF baseline > 0
               THEN /\ timer.status = "running"
                    /\ timer.remainingMs = baseline
                    /\ timer.deadline = <<ClientNow(c) + baseline>>
                    /\ timer.totalMs = prev.totalMs
                    /\ timer.label = prev.label
               ELSE /\ timer.status = "idle"
                    /\ timer.totalMs = 0
                    /\ timer.remainingMs = 0
                    /\ timer.deadline = NoDeadline]_vars

\* a client has started a finished timer again, from its full total
C24_Witness ==
  \E c \in Clients :
    /\ outbox[c] # <<>>
    /\ Head(outbox[c]).kind = "start"
    /\ doc.timer.status = "finished"
    /\ doc.timer.totalMs = MaxMs
    /\ local[c].timer.status = "running"
    /\ local[c].timer.remainingMs = MaxMs
    /\ local[c].timer.deadline = <<Head(outbox[c]).state.timer.updatedAt + MaxMs>>

\* C25: pause at client time t on a running timer with deadline D sends a
\* paused timer with remainingMs = max(0, D - t) and no deadline, totalMs and
\* label as they were; pause on a timer that is not running sends its status,
\* remainingMs and deadline as they were.
C25_PauseKeepsRemaining ==
  [][\A c \in Clients :
       (Sends(c) /\ Sent(c).kind = "pause")
         => LET prev == Prev(c)
                timer == SentTimer(c)
            IN IF prev.status = "running"
               THEN /\ timer.status = "paused"
                    /\ timer.remainingMs = Max(0, prev.deadline[1] - ClientNow(c))
                    /\ timer.deadline = NoDeadline
                    /\ timer.totalMs = prev.totalMs
                    /\ timer.label = prev.label
               ELSE /\ timer.status = prev.status
                    /\ timer.remainingMs = prev.remainingMs
                    /\ timer.deadline = prev.deadline]_vars

\* a client has paused a timer after its deadline had passed on its clock:
\* nothing remains, and the canonical timer is still running
C25_Witness ==
  \E c \in Clients :
    /\ outbox[c] # <<>>
    /\ Head(outbox[c]).kind = "pause"
    /\ doc.timer.status = "running"
    /\ doc.timer.deadline[1] < Head(outbox[c]).state.timer.updatedAt
    /\ local[c].timer.status = "paused"
    /\ local[c].timer.remainingMs = 0
    /\ local[c].timer.totalMs = doc.timer.totalMs

\* C26: addTime on a timer with totalMs 0 sends, for a positive delta, a
\* paused timer with totalMs = remainingMs = the delta and no deadline, and
\* for a delta that is not positive the idle default.
C26_AddTimeOnEmpty ==
  [][\A c \in Clients :
       (Sends(c) /\ Sent(c).kind = "addTime" /\ Prev(c).totalMs = 0)
         => LET timer == SentTimer(c)
            IN IF Sent(c).arg > 0
               THEN /\ timer.status = "paused"
                    /\ timer.totalMs = Sent(c).arg
                    /\ timer.remainingMs = Sent(c).arg
                    /\ timer.deadline = NoDeadline
               ELSE /\ timer.status = "idle"
                    /\ timer.totalMs = 0
                    /\ timer.remainingMs = 0
                    /\ timer.deadline = NoDeadline
                    /\ timer.label = NoLabel]_vars

\* C27: addTime on a paused or finished timer whose remainingMs plus the delta
\* is positive sends a paused timer with that sum as remainingMs, totalMs
\* plus the delta as totalMs and no deadline.
C27_AddTimeOnStopped ==
  [][\A c \in Clients :
       (/\ Sends(c)
        /\ Sent(c).kind = "addTime"
        /\ Prev(c).status \in {"paused", "finished"}
        /\ Prev(c).remainingMs + Sent(c).arg > 0)
         => /\ SentTimer(c).status = "paused"
            /\ SentTimer(c).remainingMs = Prev(c).remainingMs + Sent(c).arg
            /\ SentTimer(c).totalMs = Prev(c).totalMs + Sent(c).arg
            /\ SentTimer(c).deadline = NoDeadline]_vars

\* C28: clear sends the idle default (status idle, totalMs 0, remainingMs 0,
\* no label, no deadline) whatever the timer was, and the client that cleared
\* holds it with no countdown interval left.
C28_ClearYieldsDefault ==
  [][\A c \in Clients :
       (Sends(c) /\ Sent(c).kind = "clear")
         => /\ SentTimer(c).status = "idle"
            /\ SentTimer(c).totalMs = 0
            /\ SentTimer(c).remainingMs = 0
            /\ SentTimer(c).label = NoLabel
            /\ SentTimer(c).deadline = NoDeadline
            /\ local'[c].timer = SentTimer(c)
            /\ effect'[c] = <<>>]_vars

\* a client has cleared a timer that is still running in the canonical Document
C28_Witness ==
  \E c \in Clients :
    /\ outbox[c] # <<>>
    /\ Head(outbox[c]).kind = "clear"
    /\ local[c].timer.status = "idle"
    /\ effect[c] = <<>>
    /\ doc.timer.status = "running"
    /\ doc.timer.totalMs > 0

\* the handlers whose commands are timer transitions
Transitions == {"selectPreset", "start", "pause", "reset", "clear", "addTime"}

C30_UpdatedAtMonotone ==
  [][Applied
       => docs'[last'.session].timer.updatedAt >= docs[last'.session].timer.updatedAt]_vars

\* this step changes nothing of client c but the time it shows
ShowsOnly(c) ==
  /\ display'[c] # display[c]
  /\ local'[c] = local[c]
  /\ effect'[c] = effect[c]
  /\ observed'[c] = observed[c]
  /\ cmds' = cmds

C32_FinishOnlyWhileRunning ==
  [][\A c \in Clients :
       (Sends(c) /\ Sent(c).kind = "tickFinish") => local[c].timer.status = "running"]_vars

\* what the scheduling of the code guarantees: the actor takes every command
\* sent to it, every broadcast is delivered, React renders every state it was
\* given, the interval of a running countdown fires, and time passes
Fairness ==
  /\ \A c \in Clients : WF_vars(ActorReceive(c))
  /\ \A c \in Clients : WF_vars(Receive(c))
  /\ \A c \in Clients : WF_vars(RunEffect(c))
  /\ \A c \in Clients : WF_vars(Tick(c))
  /\ WF_vars(AdvanceTime)

\* the commands users and tools issue in a fair run; the rest of MaxCmds is left
\* to the finish observations of the clients
UserCmds == MaxCmds - Cardinality(Clients)

\* a session whose timer is any of TimerInputs or DueInputs, before any command
InitFair ==
  /\ Started
  /\ agentId = [c \in Clients |-> "X"]
  /\ room = MaxInbox
  /\ \E timer \in TimerInputs \cup DueInputs :
       /\ docs = [s \in Sessions |-> [createDefaultAgentState(1) EXCEPT !.timer = timer]]
       /\ effect = [c \in Clients |-> ActiveDeadline(timer)]
  /\ local = [c \in Clients |-> docs[agentId[c]]]
  /\ display = [c \in Clients |-> getTimerDisplayMs(docs[agentId[c]].timer, ClientNow(c))]
  /\ applied = [s \in Sessions |-> 1]
  /\ observed = [c \in Clients |-> 1]
  /\ cmds = 0

FairNext ==
  \/ cmds < UserCmds /\ \E c \in Clients : ClientTimerCommand(c)
  \/ cmds < UserCmds /\ \E s \in Served : ToolTimerCommand(s)
  \/ \E c \in Clients : Tick(c)
  \/ \E c \in Clients : ActorReceive(c)
  \/ \E c \in Clients : Receive(c)
  \/ \E c \in Clients : RunEffect(c)
  \/ AdvanceTime

SpecFair == InitFair /\ [][FairNext]_vars /\ Fairness

\* the deadline of the canonical timer is reached by the clock of a client
\* before time stops
Reached == doc.timer.deadline # NoDeadline /\ doc.timer.deadline[1] <= MaxTime + MaxSkew

\* the canonical timer is running towards a deadline that will be reached
Due == doc.timer.status = "running" /\ Reached

\* C33: with the actor, the connections, the renders, the ticks and the clock
\* scheduled fairly, a canonical timer that is running towards a deadline that
\* the clocks reach does not stay so: it leaves running, or is replaced by one
\* with a later deadline.
C33_RunningEventuallyLeaves == Due ~> ~Due

\* time has passed, a client's tick has found the deadline of the running
\* timer reached, and the actor has applied its finish
C33_Witness ==
  /\ now > 1
  /\ last.src \in Clients
  /\ last.kind = "tickFinish"
  /\ doc.timer.status = "finished"
  /\ doc.timer.updatedAt > 1
  /\ Quiescent

\* C34: deleteInstruction(index) with 1 <= index <= length writes the
\* instructions without the one at position index - 1 (counted from 0), the
\* others in their order, and reports the text removed; with any other index,
\* on an empty list too, it reports an invalid index and writes nothing.
C34_DeleteInstructionByIndex ==
  [][\A s \in Served, index \in Indices :
       deleteInstruction(s, index)
         => LET old == docs[s].instructions
            IN IF 1 <= index /\ index <= Len(old)
               THEN /\ docs'[s] = [docs[s] EXCEPT !.instructions = Without(old, index)]
                    /\ result' = Removed("instructions", old[index].text)
               ELSE /\ docs' = docs
                    /\ inbox' = inbox
                    /\ result' = InvalidIndex]_vars

\* index 2 took the second of three instructions and left the first and the
\* third in their order
C34_Witness ==
  /\ last.kind = "deleteInstruction"
  /\ result = Removed("instructions", "Stir")
  /\ Len(doc.instructions) = 2
  /\ doc.instructions[1] = [id |-> LoadedId(1), text |-> "Boil"]
  /\ doc.instructions[2] = [id |-> LoadedId(3), text |-> "Boil"]

\* the ids of a list, in its order
IdsOf(list) == [k \in 1..Len(list) |-> list[k].id]

\* every list held by an actor or a client, or on its way between them
Collections ==
  {docs[s][f] : s \in Sessions, f \in ListFields}
    \cup {local[c][f] : c \in Clients, f \in ListFields}
    \cup UNION {{outbox[c][k].state[outbox[c][k].target] :
                   k \in {j \in 1..Len(outbox[c]) : outbox[c][j].target \in ListFields}} :
                c \in Clients}
    \cup UNION {{inbox[c][k].state[f] : k \in 1..Len(inbox[c]), f \in ListFields} : c \in Clients}

\* no id is twice in the list
Unique(list) == \A j, k \in 1..Len(list) : list[j].id = list[k].id => j = k

\* new holds the ids of old at the positions they had, with one taken out or
\* with ids that no item had before added behind them
Stable(old, new) ==
  \/ IdsOf(new) = IdsOf(old)
  \/ \E k \in 1..Len(old) : IdsOf(new) = Without(IdsOf(old), k)
  \/ /\ Len(new) > Len(old)
     /\ SubSeq(IdsOf(new), 1, Len(old)) = IdsOf(old)
     /\ \A k \in (Len(old) + 1)..Len(new) : new[k].id >= nextId

\* C35: no list anywhere holds an id twice, and the list a client's command
\* sends keeps the ids of the list the client had at their positions: an edit
\* changes no id and no position, a removal takes one id out, and an addition
\* (the one of mark-as-bought too) puts an id no item had behind all others.
C35_IdentityStable ==
  /\ [](\A list \in Collections : Unique(list))
  /\ [][\A c \in Clients : \A k \in (Len(outbox[c]) + 1)..Len(outbox'[c]) :
          outbox'[c][k].target \in ListFields
            => /\ Stable(local[c][outbox'[c][k].target], outbox'[c][k].state[outbox'[c][k].target])
               /\ local'[c][outbox'[c][k].target] = outbox'[c][k].state[outbox'[c][k].target]]_vars

\* the canonical grocery list holds its loaded item edited in place, then an
\* added item, then one bought from the shopping list, which is empty
C35_Witness ==
  /\ Len(doc.groceryList) = 2
  /\ doc.groceryList[1].id = LoadedId(1)
  /\ doc.groceryList[1].name = "eggs"
  /\ doc.groceryList[2].id >= 1
  /\ doc.shoppingList = <<>>
  /\ Quiescent

\* C36: every timer held by the actor or by a client that has a total has no
\* more time remaining than its total.
C36_RemainingWithinTotal ==
  \A t \in Timers : t.totalMs > 0 => t.remainingMs <= t.totalMs

\* the list holds an item with the name and the quantity of item b
Held(b, list) == \E g \in Items(list) : g.name = b.name /\ g.quantity = b.quantity

\* C37: when the actor applies either state of a mark-as-bought, the item
\* bought, if the canonical shopping list held it, is by name and quantity in
\* the canonical shopping list or grocery list afterwards; after the second
\* state it is no longer in the shopping list and is in the grocery list under
\* another id.
C37_BoughtItemKept ==
  [][\A c \in Clients :
       (ActorApplies(c) /\ Head(outbox[c]).kind = "markAsBought")
         => LET msg == Head(outbox[c])
                s == agentName(c)
            IN \A b \in {i \in Items(docs[s].shoppingList) : i.id = msg.arg} :
                 /\ Held(b, docs'[s].shoppingList) \/ Held(b, docs'[s].groceryList)
                 /\ msg.target = "shoppingList"
                      => /\ b.id \notin Ids(docs'[s].shoppingList)
                         /\ \E g \in Items(docs'[s].groceryList) :
                              g.name = b.name /\ g.quantity = b.quantity /\ g.id # b.id]_vars

\* the times a clock of the model can show
Clock == 1..(MaxTime + MaxSkew)

\* C38: for every running timer a client holds, with deadline D after the
\* client's time t: handlePause at t followed by handleStart at any t2 >= t
\* gives a running timer with deadline t2 + (D - t), which is D when t2 = t,
\* and the total it had.
C38_PauseStartRoundTrip ==
  \A c \in Clients :
    LET prev == local[c].timer
        t == ClientNow(c)
    IN (prev.status = "running" /\ prev.deadline # NoDeadline /\ t < prev.deadline[1])
         => \A t2 \in {u \in Clock : u >= t} :
              LET again == handleStart(handlePause(prev, t), t2)
              IN /\ again.status = "running"
                 /\ again.deadline = <<t2 + (prev.deadline[1] - t)>>
                 /\ (t2 = t => again.deadline = prev.deadline)
                 /\ again.totalMs = prev.totalMs

\* a client has paused the timer after part of its total had run, the actor
\* has applied the pause, and the client has started it again at once: it
\* runs what remained, towards the deadline it had
C38_Witness ==
  \E c \in Clients :
    /\ cmds = MaxCmds
    /\ last.src = c
    /\ last.kind = "pause"
    /\ doc.timer.status = "paused"
    /\ doc.timer.remainingMs < doc.timer.totalMs
    /\ doc.timer.updatedAt = ClientNow(c)
    /\ outbox[c] # <<>>
    /\ Head(outbox[c]).kind = "start"
    /\ local[c].timer.status = "running"
    /\ local[c].timer.deadline = <<ClientNow(c) + doc.timer.remainingMs>>
    /\ local[c].timer.deadline = effect[c]
    /\ local[c].timer.totalMs = doc.timer.totalMs

\* C39: a remove or an update called with an id that no item of the client's
\* list has sends the list as it was; an update called with an id of the list
\* sends a list of the same length that has the given item where the item
\* with that id was and every other item where it was.
C39_AbsentIdKeepsList ==
  [][\A c \in Clients :
       (Sends(c) /\ Sent(c).kind \in {"removeItem", "updateItem"})
         => LET old == local[c][Sent(c).target]
                new == Sent(c).state[Sent(c).target]
                id == Sent(c).arg
            IN /\ id \notin Ids(old) => new = old
               /\ (id \in Ids(old) /\ Sent(c).kind = "updateItem")
                    => /\ Len(new) = Len(old)
                       /\ \A k \in 1..Len(old) :
                            IF old[k].id = id
                            THEN new[k] \in CallItems /\ new[k].id = id
                            ELSE new[k] = old[k]
               /\ local'[c][Sent(c).target] = new]_vars

\* one client has sent its three groceries unchanged after an update with an
\* id that none of them has
C39_Witness ==
  \E c \in Clients :
    /\ outbox[c] # <<>>
    /\ Head(outbox[c]).kind = "updateItem"
    /\ Head(outbox[c]).target = "groceryList"
    /\ Head(outbox[c]).arg \notin Ids(doc.groceryList)
    /\ Len(doc.groceryList) = MaxDrawn
    /\ Head(outbox[c]).state.groceryList = doc.groceryList
    /\ local[c].groceryList = doc.groceryList
====
